---- MODULE Spec2Model ----
(***************************************************************************)
(* bitcoin-auth: issuing, parsing and verifying the auth token             *)
(*     pubkey|scheme|timestamp|requestPath|signature                       *)
(* (src/unnamed/part_005, lines 1-185, the current auth module).           *)
(*                                                                         *)
(* Strings are sequences of elements.  An element is a pair <<tag, v>>:    *)
(*   <<"c", ch>>    one character (ch is "a", "A", "D", "Q", "|", "=")     *)
(*   <<"w", word>>  a literal run of characters without '|' ("bsm", ...)   *)
(*   <<"pub", k>>   the 66 hex characters of the compressed public key of  *)
(*                  private key k                                          *)
(*   <<"iso", t>>   Date.toISOString() of the instant t (minutes)          *)
(*   <<"sha", b>>   the 64 hex characters of SHA-256 of the bytes b        *)
(*   <<"b64", b>>   the base64 characters that encode the bytes b          *)
(* Byte arrays are sequences of <<"b", n>> (one byte), of the elements     *)
(* above (the ASCII bytes of that run) and of <<"raw", s>> (the bytes of   *)
(* the signature s = <<algorithm, signing key, signed bytes>>).            *)
(* SHA-256 and the two signature algorithms of @bsv/sdk are symbolic:      *)
(* collision free and unforgeable.                                         *)
(***************************************************************************)
EXTENDS Integers, Sequences, FiniteSets, TLC

VARIABLES
  now,           \* the wall clock read by new Date(), in minutes
  issued,        \* the last getAuthToken call: its arguments and its token
  token,         \* the token string of the last parse/verify call
  made,          \* the fields that string was joined from
  target,        \* the AuthPayload of the last verifyAuthToken call
  timePad,       \* its timePad argument
  bodyEncoding,  \* its bodyEncoding argument
  result,        \* what it did: "true", "false", "throw" ("none": no call)
  parsed,        \* what the last parseAuthToken call returned
  op,            \* which operation ran last, and on which variation
  calls,         \* concurrent callers: the call each one is in, its arguments,
                 \* its position in the function and its local variables
  accepted,      \* history: the (token, target) pairs that verified true so far
  box,           \* the last encryptPayload / decryptPayload call
  env            \* globalThis.crypto, self and require, and the calls of
                 \* setupCryptoPolyfill so far

vars == <<now, issued, token, made, target, timePad, bodyEncoding, result,
          parsed, op, calls, accepted, box, env>>

---------------------------------------------------------------------------
(* Bounds and input domains *)

MaxTime == 2     \* the clock runs from 0 to MaxTime
MaxPad == 1      \* timePad is drawn from 0..MaxPad
MaxFields == 6   \* malformed tokens carry 0..MaxFields fields
MaxCalls == 3    \* setupCryptoPolyfill runs up to MaxCalls times

DefaultTimePad == 5   \* timePad = 5

Ch(c) == <<"c", c>>
W(w) == <<"w", w>>
Bar == Ch("|")
Eq == Ch("=")

Keys == {"k1", "k2"}
Schemes == {"bsm", "brc77"}
Undefined == "undefined"   \* an argument left out
Encodings == {"utf8", "hex", "base64"}
Times == 0..MaxTime
Pads == 0..MaxPad

\* request paths: case variants, and one holding the delimiter
Paths == { <<Ch("a")>>, <<Ch("A")>>, <<Ch("a"), Bar, Ch("a")>> }

\* an optional string: body?: string
NoBody == [has |-> FALSE, s |-> <<>>]
SomeBody(s) == [has |-> TRUE, s |-> s]
Bodies ==
  { NoBody, SomeBody(<<>>), SomeBody(<<Ch("a")>>), SomeBody(<<Ch("A")>>),
    SomeBody(<<Ch("a"), Ch("a")>>), SomeBody(<<Ch("a"), Ch("A")>>),
    SomeBody(<<Ch("D"), Ch("Q")>>) }

Garbage == <<Ch("a")>>   \* a field that is no key, no date and no signature


---------------------------------------------------------------------------
(* Strings *)

\* `${a}|${b}|...`: the fields joined by '|'
RECURSIVE Join(_)
Join(fields) ==
  IF Len(fields) = 0 THEN <<>>
  ELSE IF Len(fields) = 1 THEN fields[1]
  ELSE fields[1] \o <<Bar>> \o Join(Tail(fields))

\* String.prototype.split('|'): the runs between the delimiters; one (empty)
\* field for the empty string
RECURSIVE SplitFrom(_, _, _)
SplitFrom(s, i, cur) ==
  IF i > Len(s) THEN <<cur>>
  ELSE IF s[i] = Bar THEN <<cur>> \o SplitFrom(s, i + 1, <<>>)
  ELSE SplitFrom(s, i + 1, Append(cur, s[i]))

split(s) == SplitFrom(s, 1, <<>>)

\* JavaScript truthiness of an optional string: undefined and '' are falsy
Truthy(body) == body.has /\ body.s # <<>>

---------------------------------------------------------------------------
(* @bsv/sdk Utils: toArray, toHex, toBase64 *)

Utf8Code(c) ==
  CASE c = "a" -> 97 [] c = "A" -> 65 [] c = "D" -> 68 [] c = "Q" -> 81
    [] c = "|" -> 124 [] c = "=" -> 61 [] OTHER -> 63

IsAlnum(e) == e[1] = "c" /\ e[2] \in {"a", "A", "D", "Q"}

\* the value of a hex digit; -1 for a letter that is none
HexVal(c) ==
  CASE c = "a" -> 10 [] c = "A" -> 10 [] c = "D" -> 13 [] c = "0" -> 0
    [] OTHER -> 0 - 1

B64Index(c) ==
  CASE c = "a" -> 26 [] c = "A" -> 0 [] c = "D" -> 3 [] c = "Q" -> 16
    [] OTHER -> 0 - 1

Pow2(n) == CASE n = 0 -> 1 [] n = 1 -> 2 [] n = 2 -> 4 [] n = 3 -> 8 [] n = 4 -> 16
             [] n = 5 -> 32 [] n = 6 -> 64 [] n = 7 -> 128 [] OTHER -> 256

\* toArray(msg, 'utf8'): one byte per (ASCII) character
utf8ToArray(s) ==
  [i \in 1..Len(s) |-> IF s[i][1] = "c" THEN <<"b", Utf8Code(s[i][2])>> ELSE s[i]]

\* parseInt(c1 + c2, 16): the digits up to the first character that is
\* none; NaN (here -1) when the first is none
parseInt16(d1, d2) ==
  IF d1 < 0 THEN 0 - 1 ELSE IF d2 < 0 THEN d1 ELSE 16 * d1 + d2

\* toArray(msg, 'hex'): drop what is not alphanumeric, left-pad an odd
\* length with '0', then one byte per pair of digits, in either case
RECURSIVE HexPairs(_, _)
HexPairs(d, i) ==
  IF i > Len(d) THEN <<>>
  ELSE <<<<"b", parseInt16(d[i], d[i + 1])>>>> \o HexPairs(d, i + 2)

hexToArray(s) ==
  LET kept == SelectSeq(s, IsAlnum)
      digits == [i \in 1..Len(kept) |-> HexVal(kept[i][2])]
      even == IF Len(digits) % 2 = 1 THEN <<0>> \o digits ELSE digits
  IN HexPairs(even, 1)

\* msg.replace(/=+$/, ''): the trailing padding is dropped
RECURSIVE StripPad(_)
StripPad(s) ==
  IF Len(s) > 0 /\ s[Len(s)] = Eq THEN StripPad(SubSeq(s, 1, Len(s) - 1)) ELSE s

\* toArray(msg, 'base64') on characters: six bits per character, a byte
\* each time eight are collected, the bits left at the end dropped
RECURSIVE B64Loop(_, _, _, _)
B64Loop(s, i, bits, nbits) ==
  IF i > Len(s) THEN <<>>
  ELSE LET cur == bits * 64 + B64Index(s[i][2])
           n == nbits + 6
       IN IF n >= 8
          THEN <<<<"b", (cur \div Pow2(n - 8)) % 256>>>>
                 \o B64Loop(s, i + 1, cur % Pow2(n - 8), n - 8)
          ELSE B64Loop(s, i + 1, cur, n)

\* toArray(msg, 'base64'): a run <<"b64", b>> decodes to b; a string that
\* mixes such a run with further characters decodes to bytes that are
\* no signature (one junk byte)
base64ToArray(s) ==
  LET t == StripPad(s)
  IN IF \A i \in 1..Len(t) : t[i][1] = "c" THEN B64Loop(t, 1, 0, 0)
     ELSE IF Len(t) = 1 /\ t[1][1] = "b64" THEN t[1][2]
     ELSE <<<<"b", 255>>>>

toArray(s, enc) ==
  CASE enc = "hex" -> hexToArray(s)
    [] enc = "base64" -> base64ToArray(s)
    [] OTHER -> utf8ToArray(s)

toBase64(bytes) == <<<<"b64", bytes>>>>

\* toHex(Hash.sha256(bytes)): 64 hex characters, one digest per byte array
sha256Hex(bytes) == <<<<"sha", bytes>>>>

---------------------------------------------------------------------------
(* @bsv/sdk keys, dates and signatures *)

\* PrivateKey.fromWif(wif).toPublicKey().toString()
toPublicKeyString(key) == <<<<"pub", key>>>>

\* PublicKey.fromString(s) throws unless s encodes a point
IsPublicKey(s) == Len(s) = 1 /\ s[1][1] = "pub"

\* new Date().toISOString()
toISOString(t) == <<<<"iso", t>>>>

\* new Date(s): Invalid Date (NaN) unless s is a date string
NaN == [valid |-> FALSE, t |-> 0]
Date(s) == IF Len(s) = 1 /\ s[1][1] = "iso" THEN [valid |-> TRUE, t |-> s[1][2]] ELSE NaN

\* d.setMinutes(d.getMinutes() + m): NaN stays NaN
setMinutes(d, m) == IF d.valid THEN [d EXCEPT !.t = @ + m] ELSE d

\* a > b on Dates: every comparison with NaN is false
DateGT(a, b) == a.valid /\ b.valid /\ a.t > b.t

\* BSM.sign(message, privateKey): the base64 of a 65-byte compact signature
BSM_sign(message, key) == toBase64(<<<<"raw", <<"bsm", key, message>>>>>>)

\* SignedMessage.sign(message, privateKey): version, signer public key,
\* "anyone" verifier, key id and a DER signature, as bytes
SignedMessage_sign(message, key) == <<<<"raw", <<"brc77", key, message>>>>>>

IsSignatureOf(bytes, alg) ==
  Len(bytes) = 1 /\ bytes[1][1] = "raw" /\ bytes[1][2][1] = alg

---------------------------------------------------------------------------
(* The encryption module (src/src/encryption.ts)                             *)

\* JavaScript values an argument or a field may hold: a string, undefined,
\* or a (non-zero) number
Str(s) == [type |-> "string", s |-> s]
JsUndefined == [type |-> "undefined", s |-> <<>>]
JsNumber == [type |-> "number", s |-> <<>>]
JsTruthy(v) == v.type = "number" \/ (v.type = "string" /\ v.s # <<>>)

\* an EncryptedPayload, and an object without the two fields
Payload(ephemeralPub, ciphertext) ==
  [ephemeralPub |-> ephemeralPub, ciphertext |-> ciphertext]
NoPayload == Payload(JsUndefined, JsUndefined)

\* what a call does: it returns a value or throws an Error with a message
Returns(payload, text) ==
  [kind |-> "ok", payload |-> payload, value |-> text]
Throws(message) ==
  [kind |-> "throw", payload |-> NoPayload, value |-> <<W(message)>>]
NoResult == [kind |-> "none", payload |-> NoPayload, value |-> <<>>]

\* Utils.toUTF8(bytes): the characters of the (ASCII) bytes
CharOfCode(n) ==
  CASE n = 97 -> "a" [] n = 65 -> "A" [] n = 68 -> "D" [] n = 81 -> "Q"
    [] n = 124 -> "|" [] n = 61 -> "=" [] OTHER -> "?"

toUTF8(bytes) ==
  [i \in 1..Len(bytes) |->
     IF bytes[i][1] = "b" THEN Ch(CharOfCode(bytes[i][2])) ELSE bytes[i]]

\* Utils.toHex(bytes) of a ciphertext, and Utils.toArray(s, 'hex') on it:
\* <<"hex", b>> are the lowercase hex digits of the bytes b, <<"HEX", b>>
\* the uppercase ones
toHex(bytes) == <<<<"hex", bytes>>>>

hexStringToArray(s) ==
  IF Len(s) = 1 /\ s[1][1] \in {"hex", "HEX"} THEN s[1][2] ELSE toArray(s, "hex")

\* privateKey.deriveSharedSecret(publicKey): the point both sides derive
deriveSharedSecret(priv, pub) == {priv, pub[1][2]}

\* symmetricKey.encrypt(bytes): AES-GCM, the iv, the ciphertext and the tag
SymmetricKey_encrypt(key, bytes) == <<<<"gcm", <<key, bytes>>>>>>

\* symmetricKey.decrypt(bytes) returns the plaintext when the tag verifies
\* under the key, and throws otherwise
CanDecrypt(key, bytes) ==
  Len(bytes) = 1 /\ bytes[1][1] = "gcm" /\ bytes[1][2][1] = key

\* as encryptPayload, reading the plaintext as hex digits
encryptPayload_hexPlaintext(serverPubKeyHex, plaintext, ephemeralPriv) ==
  IF ~JsTruthy(serverPubKeyHex) \/ serverPubKeyHex.type # "string"
  THEN Throws("Invalid server public key")
  ELSE IF ~IsPublicKey(serverPubKeyHex.s)
  THEN Throws("Invalid server public key format")
  ELSE LET sharedPoint == deriveSharedSecret(ephemeralPriv, serverPubKeyHex.s)
       IN Returns(Payload(Str(toPublicKeyString(ephemeralPriv)),
                          Str(toHex(SymmetricKey_encrypt(
                                      sharedPoint, toArray(plaintext, "hex"))))),
                  <<>>)

\* as encryptPayload, without the try/catch around PublicKey.fromString
encryptPayload_noCatch(serverPubKeyHex, plaintext, ephemeralPriv) ==
  IF ~JsTruthy(serverPubKeyHex) \/ serverPubKeyHex.type # "string"
  THEN Throws("Invalid server public key")
  ELSE IF ~IsPublicKey(serverPubKeyHex.s)
  THEN Throws("PublicKey.fromString")
  ELSE LET sharedPoint == deriveSharedSecret(ephemeralPriv, serverPubKeyHex.s)
       IN Returns(Payload(Str(toPublicKeyString(ephemeralPriv)),
                          Str(toHex(SymmetricKey_encrypt(
                                      sharedPoint, toArray(plaintext, "utf8"))))),
                  <<>>)

\* ephemeralPriv is what PrivateKey.fromRandom() returned
encryptPayload(serverPubKeyHex, plaintext, ephemeralPriv) ==
  IF ~JsTruthy(serverPubKeyHex) \/ serverPubKeyHex.type # "string"
  THEN Throws("Invalid server public key")
  ELSE IF ~IsPublicKey(serverPubKeyHex.s)
  THEN Throws("Invalid server public key format")
  ELSE LET sharedPoint == deriveSharedSecret(ephemeralPriv, serverPubKeyHex.s)
       IN Returns(Payload(Str(toPublicKeyString(ephemeralPriv)),
                          Str(toHex(SymmetricKey_encrypt(
                                      sharedPoint, toArray(plaintext, "utf8"))))),
                  <<>>)

\* as decryptPayload, with a cipher that does not authenticate: whatever
\* the key, the bytes under the encryption come back
decryptPayload_unauthenticated(serverPrivKey, encrypted) ==
  IF ~JsTruthy(encrypted.ephemeralPub) \/ encrypted.ephemeralPub.type # "string"
  THEN Throws("Invalid encrypted payload: missing ephemeralPub")
  ELSE IF ~JsTruthy(encrypted.ciphertext) \/ encrypted.ciphertext.type # "string"
  THEN Throws("Invalid encrypted payload: missing ciphertext")
  ELSE IF ~IsPublicKey(encrypted.ephemeralPub.s) THEN Throws("PublicKey.fromString")
  ELSE LET bytes == hexStringToArray(encrypted.ciphertext.s)
       IN IF Len(bytes) = 1 /\ bytes[1][1] \in {"gcm", "gcmTampered"}
          THEN Returns(NoPayload, toUTF8(bytes[1][2][2]))
          ELSE Returns(NoPayload, toUTF8(bytes))

decryptPayload(serverPrivKey, encrypted) ==
  IF ~JsTruthy(encrypted.ephemeralPub) \/ encrypted.ephemeralPub.type # "string"
  THEN Throws("Invalid encrypted payload: missing ephemeralPub")
  ELSE IF ~JsTruthy(encrypted.ciphertext) \/ encrypted.ciphertext.type # "string"
  THEN Throws("Invalid encrypted payload: missing ciphertext")
  ELSE IF ~IsPublicKey(encrypted.ephemeralPub.s) THEN Throws("PublicKey.fromString")
  ELSE LET sharedPoint == deriveSharedSecret(serverPrivKey, encrypted.ephemeralPub.s)
           bytes == hexStringToArray(encrypted.ciphertext.s)
       IN IF CanDecrypt(sharedPoint, bytes)
          THEN Returns(NoPayload, toUTF8(bytes[1][2][2]))
          ELSE Throws("Decryption failed!")

---------------------------------------------------------------------------
(* The auth module *)

\* as bodyHashOf, hashing every body that is given, the empty one too
bodyHashOf_whenDefined(body, enc) ==
  IF body.has THEN sha256Hex(toArray(body.s, enc)) ELSE <<>>

\* as bodyHashOf, decoding the body as utf8 whatever the bodyEncoding
bodyHashOf_utf8(body, enc) ==
  IF Truthy(body) THEN sha256Hex(toArray(body.s, "utf8")) ELSE <<>>

\* body ? toHex(Hash.sha256(toArray(body, bodyEncoding))) : ''
bodyHashOf(body, enc) ==
  IF Truthy(body) THEN sha256Hex(toArray(body.s, enc)) ELSE <<>>

\* `${requestPath}|${timestamp}|${bodyHash}`
messageOf(requestPath, timestamp, bodyHash) ==
  requestPath \o <<Bar>> \o timestamp \o <<Bar>> \o bodyHash

\* as getAuthTokenBSM, with timestamp and requestPath written in the other order
getAuthTokenBSM_pathFirst(clock, privateKeyWif, requestPath, body, enc) ==
  LET pubkey == toPublicKeyString(privateKeyWif)
      timestamp == toISOString(clock)
      bodyHash == bodyHashOf(body, enc)
      message == messageOf(requestPath, timestamp, bodyHash)
      signature == BSM_sign(toArray(message, "utf8"), privateKeyWif)
  IN pubkey \o <<Bar, W("bsm"), Bar>> \o requestPath \o <<Bar>> \o timestamp
       \o <<Bar>> \o signature

getAuthTokenBSM(clock, privateKeyWif, requestPath, body, enc) ==
  LET pubkey == toPublicKeyString(privateKeyWif)
      timestamp == toISOString(clock)
      bodyHash == bodyHashOf(body, enc)
      message == messageOf(requestPath, timestamp, bodyHash)
      signature == BSM_sign(toArray(message, "utf8"), privateKeyWif)
  IN pubkey \o <<Bar, W("bsm"), Bar>> \o timestamp \o <<Bar>> \o requestPath
       \o <<Bar>> \o signature

\* '|' written as an escape
Escaped(s) == [n \in 1..Len(s) |-> IF s[n] = Bar THEN Ch("%7C") ELSE s[n]]

\* as getAuthTokenBRC77, escaping the delimiter in the requestPath field
getAuthTokenBRC77_escaped(clock, privateKeyWif, requestPath, body, enc) ==
  LET pubkey == toPublicKeyString(privateKeyWif)
      timestamp == toISOString(clock)
      bodyHash == bodyHashOf(body, enc)
      message == toArray(messageOf(requestPath, timestamp, bodyHash), "utf8")
      signature == toBase64(SignedMessage_sign(message, privateKeyWif))
  IN pubkey \o <<Bar, W("brc77"), Bar>> \o timestamp \o <<Bar>> \o Escaped(requestPath)
       \o <<Bar>> \o signature

\* as getAuthTokenBRC77, hashing the body as utf8 whatever the bodyEncoding
getAuthTokenBRC77_utf8Body(clock, privateKeyWif, requestPath, body, enc) ==
  LET pubkey == toPublicKeyString(privateKeyWif)
      timestamp == toISOString(clock)
      bodyHash == bodyHashOf(body, "utf8")
      message == toArray(messageOf(requestPath, timestamp, bodyHash), "utf8")
      signature == toBase64(SignedMessage_sign(message, privateKeyWif))
  IN pubkey \o <<Bar, W("brc77"), Bar>> \o timestamp \o <<Bar>> \o requestPath
       \o <<Bar>> \o signature

getAuthTokenBRC77(clock, privateKeyWif, requestPath, body, enc) ==
  LET pubkey == toPublicKeyString(privateKeyWif)
      timestamp == toISOString(clock)
      bodyHash == bodyHashOf(body, enc)
      message == toArray(messageOf(requestPath, timestamp, bodyHash), "utf8")
      signature == toBase64(SignedMessage_sign(message, privateKeyWif))
  IN pubkey \o <<Bar, W("brc77"), Bar>> \o timestamp \o <<Bar>> \o requestPath
       \o <<Bar>> \o signature

\* as getAuthToken, with scheme = 'bsm' as the default
getAuthToken_defaultBSM(clock, privateKeyWif, requestPath, scheme, body, enc) ==
  LET s == IF scheme = Undefined THEN "bsm" ELSE scheme
  IN IF s = "bsm"
     THEN getAuthTokenBSM(clock, privateKeyWif, requestPath, body, enc)
     ELSE getAuthTokenBRC77(clock, privateKeyWif, requestPath, body, enc)

\* scheme = 'brc77' when the argument is left out
getAuthToken(clock, privateKeyWif, requestPath, scheme, body, enc) ==
  LET s == IF scheme = Undefined THEN "brc77" ELSE scheme
  IN IF s = "bsm"
     THEN getAuthTokenBSM(clock, privateKeyWif, requestPath, body, enc)
     ELSE getAuthTokenBRC77(clock, privateKeyWif, requestPath, body, enc)

\* parseAuthToken's null
NullToken ==
  [ok |-> FALSE, pubkey |-> <<>>, scheme |-> <<>>, timestamp |-> <<>>,
   requestPath |-> <<>>, signature |-> <<>>]

\* as parseAuthToken, refusing only fewer than five fields
parseAuthToken_atLeast5(tok) ==
  LET parts == split(tok)
  IN IF Len(parts) < 5 THEN NullToken
     ELSE IF parts[2] # <<W("bsm")>> /\ parts[2] # <<W("brc77")>> THEN NullToken
     ELSE [ok |-> TRUE, pubkey |-> parts[1], scheme |-> parts[2],
           timestamp |-> parts[3], requestPath |-> parts[4],
           signature |-> parts[5]]

\* as parseAuthToken, without the check of the scheme
parseAuthToken_anyScheme(tok) ==
  LET parts == split(tok)
  IN IF Len(parts) # 5 THEN NullToken
     ELSE [ok |-> TRUE, pubkey |-> parts[1], scheme |-> parts[2],
           timestamp |-> parts[3], requestPath |-> parts[4],
           signature |-> parts[5]]

parseAuthToken(tok) ==
  LET parts == split(tok)
  IN IF Len(parts) # 5 THEN NullToken
     ELSE IF parts[2] # <<W("bsm")>> /\ parts[2] # <<W("brc77")>> THEN NullToken
     ELSE [ok |-> TRUE, pubkey |-> parts[1], scheme |-> parts[2],
           timestamp |-> parts[3], requestPath |-> parts[4],
           signature |-> parts[5]]

\* as verifyPreRequisites, without the comparison of the request paths
verifyPreRequisites_noPath(parsedToken, tgt, pad) ==
  LET payloadTimestamp == Date(parsedToken.timestamp)
      targetTime == setMinutes(Date(tgt.timestamp), pad)
  IN IF DateGT(payloadTimestamp, targetTime) THEN FALSE
     ELSE IF ~IsPublicKey(parsedToken.pubkey) THEN FALSE
     ELSE TRUE

\* as verifyPreRequisites, with >= for > in the comparison of the dates
verifyPreRequisites_notBefore(parsedToken, tgt, pad) ==
  LET payloadTimestamp == Date(parsedToken.timestamp)
      targetTime == setMinutes(Date(tgt.timestamp), pad)
  IN IF DateGT(payloadTimestamp, targetTime) \/ payloadTimestamp = targetTime
     THEN FALSE
     ELSE IF parsedToken.requestPath # tgt.requestPath THEN FALSE
     ELSE IF ~IsPublicKey(parsedToken.pubkey) THEN FALSE
     ELSE TRUE

\* as verifyPreRequisites, refusing also a token older than timePad minutes
verifyPreRequisites_twoSided(parsedToken, tgt, pad) ==
  LET payloadTimestamp == Date(parsedToken.timestamp)
      targetTime == setMinutes(Date(tgt.timestamp), pad)
      oldest == setMinutes(Date(tgt.timestamp), 0 - pad)
  IN IF DateGT(payloadTimestamp, targetTime) THEN FALSE
     ELSE IF DateGT(oldest, payloadTimestamp) THEN FALSE
     ELSE IF parsedToken.requestPath # tgt.requestPath THEN FALSE
     ELSE IF ~IsPublicKey(parsedToken.pubkey) THEN FALSE
     ELSE TRUE

\* as verifyPreRequisites, refusing a timestamp that is no date
verifyPreRequisites_rejectInvalidDate(parsedToken, tgt, pad) ==
  LET payloadTimestamp == Date(parsedToken.timestamp)
      targetTime == setMinutes(Date(tgt.timestamp), pad)
  IN IF ~payloadTimestamp.valid \/ ~targetTime.valid THEN FALSE
     ELSE IF DateGT(payloadTimestamp, targetTime) THEN FALSE
     ELSE IF parsedToken.requestPath # tgt.requestPath THEN FALSE
     ELSE IF ~IsPublicKey(parsedToken.pubkey) THEN FALSE
     ELSE TRUE

\* as verifyPreRequisites, without the attempt to parse the public key
verifyPreRequisites_noPubkey(parsedToken, tgt, pad) ==
  LET payloadTimestamp == Date(parsedToken.timestamp)
      targetTime == setMinutes(Date(tgt.timestamp), pad)
  IN IF DateGT(payloadTimestamp, targetTime) THEN FALSE
     ELSE IF parsedToken.requestPath # tgt.requestPath THEN FALSE
     ELSE TRUE

verifyPreRequisites(parsedToken, tgt, pad) ==
  LET payloadTimestamp == Date(parsedToken.timestamp)
      targetTime == setMinutes(Date(tgt.timestamp), pad)
  IN IF DateGT(payloadTimestamp, targetTime) THEN FALSE
     ELSE IF parsedToken.requestPath # tgt.requestPath THEN FALSE
     ELSE IF ~IsPublicKey(parsedToken.pubkey) THEN FALSE
     ELSE TRUE

\* "true", "false", or "throw" when Signature.fromCompact or
\* PublicKey.fromString rejects its argument
\* as verifyAuthTokenBSM, leaving the body out of the message
verifyAuthTokenBSM_noBody(parsedToken, tgt, enc) ==
  LET message == messageOf(parsedToken.requestPath, parsedToken.timestamp, <<>>)
      sig == toArray(parsedToken.signature, "base64")
  IN IF ~IsSignatureOf(sig, "bsm") THEN "throw"
     ELSE IF ~IsPublicKey(parsedToken.pubkey) THEN "throw"
     ELSE IF /\ toPublicKeyString(sig[1][2][2]) = parsedToken.pubkey
             /\ sig[1][2][3] = toArray(message, "utf8")
          THEN "true" ELSE "false"

\* as verifyAuthTokenBSM, rebuilding the message as timestamp|requestPath|
\* bodyHash
verifyAuthTokenBSM_timeFirst(parsedToken, tgt, enc) ==
  LET bodyHash == bodyHashOf(tgt.body, enc)
      message == messageOf(parsedToken.timestamp, parsedToken.requestPath, bodyHash)
      sig == toArray(parsedToken.signature, "base64")
  IN IF ~IsSignatureOf(sig, "bsm") THEN "throw"
     ELSE IF ~IsPublicKey(parsedToken.pubkey) THEN "throw"
     ELSE IF /\ toPublicKeyString(sig[1][2][2]) = parsedToken.pubkey
             /\ sig[1][2][3] = toArray(message, "utf8")
          THEN "true" ELSE "false"

\* as verifyAuthTokenBSM, with the errors of the library caught and turned
\* into false
verifyAuthTokenBSM_catch(parsedToken, tgt, enc) ==
  LET bodyHash == bodyHashOf(tgt.body, enc)
      message == messageOf(parsedToken.requestPath, parsedToken.timestamp, bodyHash)
      sig == toArray(parsedToken.signature, "base64")
  IN IF ~IsSignatureOf(sig, "bsm") THEN "false"
     ELSE IF ~IsPublicKey(parsedToken.pubkey) THEN "false"
     ELSE IF /\ toPublicKeyString(sig[1][2][2]) = parsedToken.pubkey
             /\ sig[1][2][3] = toArray(message, "utf8")
          THEN "true" ELSE "false"

verifyAuthTokenBSM(parsedToken, tgt, enc) ==
  LET bodyHash == bodyHashOf(tgt.body, enc)
      message == messageOf(parsedToken.requestPath, parsedToken.timestamp, bodyHash)
      sig == toArray(parsedToken.signature, "base64")
  IN IF ~IsSignatureOf(sig, "bsm") THEN "throw"
     ELSE IF ~IsPublicKey(parsedToken.pubkey) THEN "throw"
     ELSE IF /\ toPublicKeyString(sig[1][2][2]) = parsedToken.pubkey
             /\ sig[1][2][3] = toArray(message, "utf8")
          THEN "true" ELSE "false"

\* "true", "false", or "throw" when SignedMessage.verify cannot read the
\* bytes as a signed message; the signer is the key the signature names
\* as verifyAuthTokenBRC77, reading the signed bytes out of a signature of
\* either algorithm
verifyAuthTokenBRC77_anyAlgorithm(parsedToken, tgt, enc) ==
  LET bodyHash == bodyHashOf(tgt.body, enc)
      messageToVerify ==
        toArray(messageOf(parsedToken.requestPath, parsedToken.timestamp, bodyHash),
                "utf8")
      sig == toArray(parsedToken.signature, "base64")
  IN IF ~(IsSignatureOf(sig, "brc77") \/ IsSignatureOf(sig, "bsm")) THEN "throw"
     ELSE IF sig[1][2][3] = messageToVerify THEN "true" ELSE "false"

\* as verifyAuthTokenBRC77, rebuilding the message with the target's
\* timestamp
verifyAuthTokenBRC77_targetTime(parsedToken, tgt, enc) ==
  LET bodyHash == bodyHashOf(tgt.body, enc)
      messageToVerify ==
        toArray(messageOf(parsedToken.requestPath, tgt.timestamp, bodyHash), "utf8")
      sig == toArray(parsedToken.signature, "base64")
  IN IF ~IsSignatureOf(sig, "brc77") THEN "throw"
     ELSE IF sig[1][2][3] = messageToVerify THEN "true" ELSE "false"

\* as verifyAuthTokenBRC77, leaving the body out of the message
verifyAuthTokenBRC77_noBody(parsedToken, tgt, enc) ==
  LET messageToVerify ==
        toArray(messageOf(parsedToken.requestPath, parsedToken.timestamp, <<>>),
                "utf8")
      sig == toArray(parsedToken.signature, "base64")
  IN IF ~IsSignatureOf(sig, "brc77") THEN "throw"
     ELSE IF sig[1][2][3] = messageToVerify THEN "true" ELSE "false"

verifyAuthTokenBRC77(parsedToken, tgt, enc) ==
  LET bodyHash == bodyHashOf(tgt.body, enc)
      messageToVerify ==
        toArray(messageOf(parsedToken.requestPath, parsedToken.timestamp, bodyHash),
                "utf8")
      sig == toArray(parsedToken.signature, "base64")
  IN IF ~IsSignatureOf(sig, "brc77") THEN "throw"
     ELSE IF sig[1][2][3] = messageToVerify THEN "true" ELSE "false"

\* as verifyAuthToken, reading the signature before the prerequisites are
\* looked at
verifyAuthToken_signatureFirst(tok, tgt, pad, enc) ==
  LET parsedToken == parseAuthToken(tok)
      verified == IF parsedToken.scheme = <<W("bsm")>>
                  THEN verifyAuthTokenBSM(parsedToken, tgt, enc)
                  ELSE verifyAuthTokenBRC77(parsedToken, tgt, enc)
  IN IF ~parsedToken.ok THEN "false"
     ELSE IF verified = "throw" THEN "throw"
     ELSE IF ~verifyPreRequisites(parsedToken, tgt, pad) THEN "false"
     ELSE verified

\* as verifyAuthToken, without the test of the parsed token for null: the
\* read of a field of null raises
verifyAuthToken_nullThrows(tok, tgt, pad, enc) ==
  LET parsedToken == parseAuthToken(tok)
  IN IF ~parsedToken.ok THEN "throw"
     ELSE IF ~verifyPreRequisites(parsedToken, tgt, pad) THEN "false"
     ELSE IF parsedToken.scheme = <<W("bsm")>>
          THEN verifyAuthTokenBSM(parsedToken, tgt, enc)
          ELSE verifyAuthTokenBRC77(parsedToken, tgt, enc)

verifyAuthToken(tok, tgt, pad, enc) ==
  LET parsedToken == parseAuthToken(tok)
  IN IF ~parsedToken.ok THEN "false"
     ELSE IF ~verifyPreRequisites(parsedToken, tgt, pad) THEN "false"
     ELSE IF parsedToken.scheme = <<W("bsm")>>
          THEN verifyAuthTokenBSM(parsedToken, tgt, enc)
          ELSE verifyAuthTokenBRC77(parsedToken, tgt, enc)

---------------------------------------------------------------------------
(* Callers: one issuer, and requests that vary one part of what it issued *)

NoTarget == [requestPath |-> <<>>, timestamp |-> <<>>, body |-> NoBody]

NoIssue ==
  [has |-> FALSE, key |-> "", requestPath |-> <<>>, body |-> NoBody,
   asked |-> "", scheme |-> "", bodyEncoding |-> "", timestamp |-> <<>>,
   token |-> <<>>]

\* the signature field an issuer of the scheme puts on a canonical message
signatureOf(scheme, key, message) ==
  IF scheme = "bsm" THEN BSM_sign(toArray(message, "utf8"), key)
  ELSE toBase64(SignedMessage_sign(toArray(message, "utf8"), key))

\* the canonical message of an issue call
issuedMessage(i) ==
  messageOf(i.requestPath, i.timestamp, bodyHashOf(i.body, i.bodyEncoding))

\* the instant an issue call read off the clock
TokenTimeOf(i) == Date(i.timestamp).t

\* the five fields of the issued token
issuedFields(i) ==
  << toPublicKeyString(i.key), <<W(i.scheme)>>, i.timestamp, i.requestPath,
     signatureOf(i.scheme, i.key, issuedMessage(i)) >>

\* the payload the token was issued for, with the token's own timestamp
issuedTarget(i) ==
  [requestPath |-> i.requestPath, timestamp |-> i.timestamp, body |-> i.body]

FieldName(n) ==
  CASE n = 1 -> "pubkey" [] n = 2 -> "scheme" [] n = 3 -> "timestamp"
    [] n = 4 -> "requestPath" [] OTHER -> "signature"

\* signatures an attacker can put in place of the issued one: either
\* scheme's signature by any key over the canonical message of any body,
\* a string that is no signature, and the issued one re-padded
SignatureValues(i) ==
  { signatureOf(s, k, messageOf(i.requestPath, i.timestamp,
                                bodyHashOf(b, i.bodyEncoding)))
      : s \in Schemes, k \in Keys, b \in Bodies }
    \cup { Garbage, signatureOf(i.scheme, i.key, issuedMessage(i)) \o <<Eq>> }

FieldValues(i, n) ==
  CASE n = 1 -> { toPublicKeyString(k) : k \in Keys } \cup { Garbage }
    [] n = 2 -> { <<W("bsm")>>, <<W("brc77")>>, <<W("invalidScheme")>> }
    [] n = 3 -> { toISOString(t) : t \in Times } \cup { Garbage }
    [] n = 4 -> Paths
    [] OTHER -> SignatureValues(i)

\* the issued fields with field n replaced by another value
ForgedFields(i) ==
  LET f == issuedFields(i)
  IN UNION { { [f EXCEPT ![n] = v] : v \in FieldValues(i, n) \ {f[n]} }
               : n \in 1..5 }

\* the first n issued fields, or the five and n - 5 more
Resize(f, n) ==
  IF n <= Len(f) THEN SubSeq(f, 1, n)
  ELSE f \o [k \in 1..(n - Len(f)) |-> Garbage]

MalformedFields(i) == { Resize(issuedFields(i), n) : n \in (0..MaxFields) \ {5} }

Procs == {"p1", "p2"}

\* a caller that is in no call
Idle ==
  [kind |-> "idle", pc |-> "idle", scheme |-> "", at |-> 0, token |-> <<>>,
   target |-> NoTarget, timePad |-> 0, parsedToken |-> NullToken,
   result |-> "none"]

\* no encryption call yet
NoBox ==
  [op |-> "none", serverKey |-> "", keyArg |-> JsUndefined, ephemeral |-> "",
   plaintext |-> <<>>, sent |-> NoPayload, recipient |-> "",
   payload |-> NoPayload, out |-> NoResult]

\* the module not loaded yet, in an environment without crypto
NoEnv ==
  [crypto |-> "none", self |-> "undefined", selfCrypto |-> "none",
   require |-> FALSE, webcrypto |-> FALSE, count |-> 0,
   initial |-> <<"none", "undefined", "none">>,
   first |-> <<"none", "undefined", "none">>]

Init ==
  /\ accepted = {}
  /\ box = NoBox
  /\ env = NoEnv
  /\ calls = [p \in Procs |-> Idle]
  /\ now = 0
  /\ issued = NoIssue
  /\ token = <<>>
  /\ made = <<>>
  /\ target = NoTarget
  /\ timePad = 0
  /\ bodyEncoding = "utf8"
  /\ result = "none"
  /\ parsed = NullToken
  /\ op = "init"

\* time passes until the client issues its token; no later step reads the clock
Tick ==
  /\ ~issued.has
  /\ now < MaxTime
  /\ now' = now + 1
  /\ UNCHANGED <<issued, token, made, target, timePad, bodyEncoding, result,
                 parsed, op, calls, accepted, box, env>>

\* the scheme a token names in its second field
schemeField(tok) == split(tok)[2][1][2]

\* getAuthToken(privateKeyWif, requestPath, scheme, body, bodyEncoding):
\* the client issues the token of the run, naming a scheme or not; the
\* scheme it was issued under is read off the token
Issue ==
  /\ ~issued.has
  /\ \E k \in Keys, p \in Paths, s \in Schemes \cup {Undefined}, b \in Bodies,
        e \in Encodings :
    LET tok == getAuthToken(now, k, p, s, b, e)
        i == [has |-> TRUE, key |-> k, requestPath |-> p, body |-> b,
              asked |-> s, scheme |-> schemeField(tok), bodyEncoding |-> e,
              timestamp |-> toISOString(now), token |-> tok]
    IN /\ issued' = i
       /\ token' = i.token
       /\ made' = issuedFields(i)
       /\ target' = NoTarget
       /\ timePad' = 0
       /\ bodyEncoding' = "utf8"
       /\ result' = "none"
       /\ parsed' = NullToken
       /\ op' = "issue"
       /\ UNCHANGED <<now, calls, accepted, box, env>>

\* the token string of the fields mk: what getAuthToken returned, or the
\* fields an attacker joined
TokenOf(mk) == IF mk = issuedFields(issued) THEN issued.token ELSE Join(mk)

\* verifyAuthToken(token, target, timePad, bodyEncoding) on the token of
\* the fields mk
Call(name, mk, tgt, pad, enc) ==
  /\ token' = TokenOf(mk)
  /\ made' = mk
  /\ target' = tgt
  /\ timePad' = pad
  /\ bodyEncoding' = enc
  /\ result' = verifyAuthToken(TokenOf(mk), tgt, pad, enc)
  /\ parsed' = NullToken
  /\ op' = name
  /\ UNCHANGED <<now, issued, calls, accepted, box, env>>

\* the issued token against the payload it was issued for
VerifyHonest ==
  /\ op = "issue"
  /\ \E pad \in Pads :
      Call("honest", issuedFields(issued), issuedTarget(issued), pad,
           issued.bodyEncoding)

\* ... against another body
VerifyBody ==
  /\ op = "issue"
  /\ \E b \in Bodies \ {issued.body} :
      Call("body", issuedFields(issued),
           [issuedTarget(issued) EXCEPT !.body = b], DefaultTimePad,
           issued.bodyEncoding)

\* ... against another request path
VerifyPath ==
  /\ op = "issue"
  /\ \E p \in Paths \ {issued.requestPath} :
      Call("path", issuedFields(issued),
           [issuedTarget(issued) EXCEPT !.requestPath = p], DefaultTimePad,
           issued.bodyEncoding)

\* ... against another target timestamp
VerifyTime ==
  /\ op = "issue"
  /\ \E pad \in Pads, t \in Times :
      /\ toISOString(t) # issued.timestamp
      /\ Call("time", issuedFields(issued),
              [issuedTarget(issued) EXCEPT !.timestamp = toISOString(t)], pad,
              issued.bodyEncoding)

\* ... with another bodyEncoding
VerifyEncoding ==
  /\ op = "issue"
  /\ \E e \in Encodings \ {issued.bodyEncoding} :
      Call("encoding", issuedFields(issued), issuedTarget(issued),
           DefaultTimePad, e)

\* a token with one field replaced, against the issued payload; the
\* timePad is given when it is the timestamp that was replaced
VerifyForged ==
  /\ op = "issue"
  /\ \E mk \in ForgedFields(issued) :
      LET n == CHOOSE m \in 1..5 : mk[m] # issuedFields(issued)[m]
      IN \E pad \in (IF n = 3 THEN Pads ELSE {DefaultTimePad}) :
           Call(FieldName(n), mk, issuedTarget(issued), pad, issued.bodyEncoding)

\* a token with too few or too many fields, against the issued payload
VerifyMalformed ==
  /\ op = "issue"
  /\ \E mk \in MalformedFields(issued) :
      Call("fields", mk, issuedTarget(issued), DefaultTimePad,
           issued.bodyEncoding)

\* tokens whose signature field is no signature, with one more field or
\* one field of the target changed
BrokenCalls(i) ==
  LET f == [issuedFields(i) EXCEPT ![5] = Garbage]
  IN UNION { { <<[f EXCEPT ![n] = v], issuedTarget(i)>> :
                 v \in FieldValues(i, n) \ {f[n]} } : n \in 1..3 }
       \cup { <<f, [issuedTarget(i) EXCEPT !.requestPath = p]>> :
                p \in Paths \ {i.requestPath} }
       \cup { <<f, [issuedTarget(i) EXCEPT !.timestamp = toISOString(t)]>> :
                t \in Times \ {TokenTimeOf(i)} }

\* such a token, with no timePad
VerifyBroken ==
  /\ op = "issue"
  /\ \E c \in BrokenCalls(issued) :
       Call("broken", c[1], c[2], 0, issued.bodyEncoding)

\* the issued fields with a timestamp that is no date, signed again by the
\* key holder over the message of that timestamp
Undated(i) ==
  << toPublicKeyString(i.key), <<W(i.scheme)>>, Garbage, i.requestPath,
     signatureOf(i.scheme, i.key,
                 messageOf(i.requestPath, Garbage, bodyHashOf(i.body, i.bodyEncoding))) >>

\* calls in which the token's timestamp or the target's is no date
UndatedCalls(i) ==
  { <<issuedFields(i), [issuedTarget(i) EXCEPT !.timestamp = ts]>> :
      ts \in { Garbage, <<>> } }
    \cup { <<Undated(i), issuedTarget(i)>>,
           <<Undated(i), [issuedTarget(i) EXCEPT !.timestamp = Garbage]>> }

VerifyUndated ==
  /\ op = "issue"
  /\ \E c \in UndatedCalls(issued), pad \in Pads :
       Call("undated", c[1], c[2], pad, issued.bodyEncoding)

\* parseAuthToken(token) on the issued token or a variation of it
Parse ==
  /\ op = "issue"
  /\ \E mk \in {issuedFields(issued)} \cup ForgedFields(issued)
                 \cup MalformedFields(issued) :
       /\ token' = TokenOf(mk)
       /\ made' = mk
       /\ parsed' = parseAuthToken(TokenOf(mk))
  /\ target' = NoTarget
  /\ timePad' = 0
  /\ bodyEncoding' = "utf8"
  /\ result' = "none"
  /\ op' = "parse"
  /\ UNCHANGED <<now, issued, calls, accepted, box, env>>

\* the call has returned; nothing of it is kept
Return ==
  /\ op \notin {"init", "issue"}
  /\ token' = issued.token
  /\ made' = issuedFields(issued)
  /\ target' = NoTarget
  /\ timePad' = 0
  /\ bodyEncoding' = "utf8"
  /\ result' = "none"
  /\ parsed' = NullToken
  /\ op' = "issue"
  /\ UNCHANGED <<now, issued, calls, accepted, box, env>>

Next ==
  \/ Tick
  \/ Issue
  \/ VerifyHonest
  \/ VerifyBody
  \/ VerifyPath
  \/ VerifyTime
  \/ VerifyEncoding
  \/ VerifyForged
  \/ VerifyMalformed
  \/ VerifyBroken
  \/ VerifyUndated
  \/ Parse
  \/ Return

Spec == Init /\ [][Next]_vars

\* the issued token is the join of the issued fields
IssuedIsJoined == issued.has => issued.token = Join(issuedFields(issued))

---------------------------------------------------------------------------
(* Concurrent callers: each is in at most one call of getAuthToken,          *)
(* parseAuthToken or verifyAuthToken and takes it one statement at a time,    *)
(* in any interleaving with the other callers and with the clock.  What a    *)
(* call keeps between its statements are its arguments and its const locals. *)

CKey == "k1"
CPath == <<Ch("a")>>
CEncoding == "utf8"

\* the tokens callers hand to parse and verify: those any caller may have
\* been issued, and a string that is no token
CTokens ==
  { getAuthToken(t, CKey, CPath, s, NoBody, CEncoding) : t \in Times, s \in Schemes }
    \cup { Garbage }

CTargets ==
  { [requestPath |-> CPath, timestamp |-> toISOString(t), body |-> NoBody] :
      t \in Times }

\* the other variables stay as they were initially
svars ==
  <<issued, token, made, target, timePad, bodyEncoding, result, parsed, op,
    accepted, box, env>>

\* the clock advances at any moment
ClockTick ==
  /\ now < MaxTime
  /\ now' = now + 1
  /\ UNCHANGED <<svars, calls>>

\* a caller enters getAuthToken(privateKeyWif, requestPath, scheme?)
CallGetAuthToken(p) ==
  /\ calls[p].pc = "idle"
  /\ \E s \in Schemes \cup {Undefined} :
       calls' = [calls EXCEPT ![p] = [Idle EXCEPT !.kind = "issue", !.pc = "clock",
                                                  !.scheme = s]]
  /\ UNCHANGED <<now, svars>>

\* const timestamp = new Date().toISOString(): the one read of the clock
ReadClock(p) ==
  /\ calls[p].pc = "clock"
  /\ calls' = [calls EXCEPT ![p].at = now, ![p].pc = "sign"]
  /\ UNCHANGED <<now, svars>>

\* the message is signed and the token returned
SignAndReturn(p) ==
  /\ calls[p].pc = "sign"
  /\ calls' = [calls EXCEPT
                 ![p].token = getAuthToken(calls[p].at, CKey, CPath, calls[p].scheme,
                                           NoBody, CEncoding),
                 ![p].pc = "done"]
  /\ UNCHANGED <<now, svars>>

\* a caller enters parseAuthToken(token)
CallParseAuthToken(p) ==
  /\ calls[p].pc = "idle"
  /\ \E tok \in CTokens :
       calls' = [calls EXCEPT ![p] = [Idle EXCEPT !.kind = "parse", !.pc = "split",
                                                  !.token = tok]]
  /\ UNCHANGED <<now, svars>>

\* a caller enters verifyAuthToken(token, target, 0)
CallVerifyAuthToken(p) ==
  /\ calls[p].pc = "idle"
  /\ \E tok \in CTokens, tgt \in CTargets :
       calls' = [calls EXCEPT ![p] = [Idle EXCEPT !.kind = "verify", !.pc = "split",
                                                  !.token = tok, !.target = tgt]]
  /\ UNCHANGED <<now, svars>>

\* const parsedToken = parseAuthToken(token); if (!parsedToken) return false
StepParse(p) ==
  /\ calls[p].pc = "split"
  /\ LET parsedToken == parseAuthToken(calls[p].token)
     IN calls' =
          [calls EXCEPT
             ![p].parsedToken = parsedToken,
             ![p].pc = IF calls[p].kind = "verify" /\ parsedToken.ok THEN "pre"
                       ELSE "done",
             ![p].result = IF calls[p].kind = "verify" /\ ~parsedToken.ok
                           THEN "false" ELSE "none"]
  /\ UNCHANGED <<now, svars>>

\* as StepPreRequisites, on a parsedToken kept in one variable of the
\* module that every call writes: the one the other caller parsed last
StepPreRequisites_shared(p) ==
  /\ calls[p].pc = "pre"
  /\ LET q == CHOOSE r \in Procs : r # p
         shared == IF calls[q].pc \in {"pre", "sig", "done"} /\ calls[q].kind # "issue"
                   THEN calls[q].parsedToken ELSE calls[p].parsedToken
     IN IF verifyPreRequisites(shared, calls[p].target, calls[p].timePad)
        THEN calls' = [calls EXCEPT ![p].pc = "sig"]
        ELSE calls' = [calls EXCEPT ![p].pc = "done", ![p].result = "false"]
  /\ UNCHANGED <<now, svars>>

\* if (!verifyPreRequisites(parsedToken, target, timePad)) return false
StepPreRequisites(p) ==
  /\ calls[p].pc = "pre"
  /\ IF verifyPreRequisites(calls[p].parsedToken, calls[p].target, calls[p].timePad)
     THEN calls' = [calls EXCEPT ![p].pc = "sig"]
     ELSE calls' = [calls EXCEPT ![p].pc = "done", ![p].result = "false"]
  /\ UNCHANGED <<now, svars>>

\* return verifyAuthTokenBSM(...) or verifyAuthTokenBRC77(...)
StepSignature(p) ==
  /\ calls[p].pc = "sig"
  /\ calls' =
       [calls EXCEPT
          ![p].result =
            IF calls[p].parsedToken.scheme = <<W("bsm")>>
            THEN verifyAuthTokenBSM(calls[p].parsedToken, calls[p].target, CEncoding)
            ELSE verifyAuthTokenBRC77(calls[p].parsedToken, calls[p].target, CEncoding),
          ![p].pc = "done"]
  /\ UNCHANGED <<now, svars>>

\* the caller has its result and is free for another call
CallReturn(p) ==
  /\ calls[p].pc = "done"
  /\ calls' = [calls EXCEPT ![p] = Idle]
  /\ UNCHANGED <<now, svars>>

NextConcurrent ==
  \/ ClockTick
  \/ \E p \in Procs : CallGetAuthToken(p)
  \/ \E p \in Procs : ReadClock(p)
  \/ \E p \in Procs : SignAndReturn(p)
  \/ \E p \in Procs : CallParseAuthToken(p)
  \/ \E p \in Procs : CallVerifyAuthToken(p)
  \/ \E p \in Procs : StepParse(p)
  \/ \E p \in Procs : StepPreRequisites(p)
  \/ \E p \in Procs : StepSignature(p)
  \/ \E p \in Procs : CallReturn(p)

SpecConcurrent == Init /\ [][NextConcurrent]_vars

---------------------------------------------------------------------------
(* One verifier over time: call after call of verifyAuthToken, with a        *)
(* history of the pairs it has accepted                                      *)

\* the tokens presented: both schemes' tokens of the first instant, one of
\* the last instant, and a string that is no token
ReplayTokens ==
  { getAuthToken(0, CKey, CPath, s, NoBody, CEncoding) : s \in Schemes }
    \cup { getAuthToken(MaxTime, CKey, CPath, "brc77", NoBody, CEncoding), Garbage }

ReplayTargets ==
  { [requestPath |-> CPath, timestamp |-> toISOString(t), body |-> NoBody] :
      t \in {0, MaxTime} }

\* as ReplayVerify, refusing a pair that was accepted before
ReplayVerify_onceOnly ==
  /\ op \in {"init", "returned"}
  /\ \E tok \in ReplayTokens, tgt \in ReplayTargets :
       /\ token' = tok
       /\ target' = tgt
       /\ result' = IF <<tok, tgt>> \in accepted THEN "false"
                    ELSE verifyAuthToken(tok, tgt, 0, CEncoding)
  /\ timePad' = 0
  /\ bodyEncoding' = CEncoding
  /\ op' = "replay"
  /\ UNCHANGED <<now, issued, made, parsed, calls, accepted, box, env>>

\* verifyAuthToken(token, target, 0): nothing but the arguments is read
ReplayVerify ==
  /\ op \in {"init", "returned"}
  /\ \E tok \in ReplayTokens, tgt \in ReplayTargets :
       /\ token' = tok
       /\ target' = tgt
       /\ result' = verifyAuthToken(tok, tgt, 0, CEncoding)
  /\ timePad' = 0
  /\ bodyEncoding' = CEncoding
  /\ op' = "replay"
  /\ UNCHANGED <<now, issued, made, parsed, calls, accepted, box, env>>

\* the call returns; the history notes a pair that was accepted
ReplayReturn ==
  /\ op = "replay"
  /\ accepted' = IF result = "true" THEN accepted \cup {<<token, target>>}
                 ELSE accepted
  /\ result' = "none"
  /\ op' = "returned"
  /\ UNCHANGED <<now, issued, token, made, target, timePad, bodyEncoding, parsed,
                 calls, box, env>>

NextReplay ==
  \/ ClockTick
  \/ ReplayVerify
  \/ ReplayReturn

SpecReplay == Init /\ [][NextReplay]_vars

---------------------------------------------------------------------------
(* A sender that encrypts for a server, and what then reaches decryptPayload *)

Ephemerals == {"e1", "e2"}
Plaintexts == { <<>>, <<Ch("a")>>, <<Ch("A"), Bar, Ch("Q")>> }

\* what a caller may pass as the server's public key
KeyArgs ==
  { Str(toPublicKeyString(k)) : k \in Keys }
    \cup { Str(<<>>), Str(Garbage), JsUndefined, JsNumber }

\* the ciphertext with its last byte changed
Tampered(ciphertext) ==
  LET bytes == hexStringToArray(ciphertext.s)
  IN Str(toHex(<<<<"gcmTampered", bytes[1][2]>>>>))

\* the same bytes in uppercase hex digits
Uppercase(ciphertext) == Str(<<<<"HEX", hexStringToArray(ciphertext.s)>>>>)

\* the payloads that differ from the one sent in one field, or lack both
Altered(b) ==
  { [b.sent EXCEPT !.ciphertext = c] :
      c \in { JsUndefined, JsNumber, Str(<<>>), Str(Garbage), Tampered(b.sent.ciphertext),
              Uppercase(b.sent.ciphertext),
              Str(toHex(SymmetricKey_encrypt({"e0", b.serverKey},
                                             toArray(b.plaintext, "utf8")))) } }
    \cup
  { [b.sent EXCEPT !.ephemeralPub = e] :
      e \in ({ JsUndefined, JsNumber, Str(<<>>), Str(Garbage) }
               \cup { Str(toPublicKeyString(k)) : k \in Ephemerals \cup Keys })
             \ {b.sent.ephemeralPub} }
    \cup { NoPayload }

\* encryptPayload(serverPubKeyHex, plaintext)
Encrypt ==
  /\ box.op \in {"none", "returned"}
  /\ \E k \in KeyArgs, p \in Plaintexts, e \in Ephemerals :
       LET out == encryptPayload(k, p, e)
       IN box' = [op |-> "encrypt",
                  serverKey |-> IF out.kind = "ok" THEN k.s[1][2] ELSE "",
                  keyArg |-> k, ephemeral |-> e, plaintext |-> p,
                  sent |-> out.payload, recipient |-> "", payload |-> NoPayload,
                  out |-> out]
  /\ UNCHANGED <<now, issued, token, made, target, timePad, bodyEncoding, result,
                 parsed, op, calls, accepted, env>>

\* decryptPayload(serverPrivKey, encrypted) on the payload pl with the key k
Decrypt(name, k, pl) ==
  /\ box.op = "encrypt"
  /\ box.out.kind = "ok"
  /\ box' = [box EXCEPT !.op = name, !.recipient = k, !.payload = pl,
                        !.out = decryptPayload(k, pl)]
  /\ UNCHANGED <<now, issued, token, made, target, timePad, bodyEncoding, result,
                 parsed, op, calls, accepted, env>>

\* the server decrypts what was sent to it
DecryptSent == Decrypt("decrypt", box.serverKey, box.sent)

\* another key holder decrypts what was sent to the server
DecryptWrongKey ==
  /\ box.out.kind = "ok"
  /\ \E k \in (Keys \cup Ephemerals) \ {box.serverKey, box.ephemeral} :
       Decrypt("wrongkey", k, box.sent)

\* the server decrypts a payload that was altered on the way
DecryptAltered ==
  /\ box.op = "encrypt"
  /\ box.out.kind = "ok"
  /\ \E pl \in Altered(box) : Decrypt("altered", box.serverKey, pl)

\* the call is over
BoxReturn ==
  /\ box.op \notin {"none", "returned"}
  /\ box' = [NoBox EXCEPT !.op = "returned"]
  /\ UNCHANGED <<now, issued, token, made, target, timePad, bodyEncoding, result,
                 parsed, op, calls, accepted, env>>

NextEncryption ==
  \/ Encrypt
  \/ DecryptSent
  \/ DecryptWrongKey
  \/ DecryptAltered
  \/ BoxReturn

SpecEncryption == Init /\ [][NextEncryption]_vars

---------------------------------------------------------------------------
(* The crypto polyfill of the package entry (src/unnamed/part_006)           *)

\* globalThis.crypto, whether self is defined, and self.crypto
Globals(e) == <<e.crypto, e.self, e.selfCrypto>>

\* as setupCryptoPolyfill, assigning webcrypto whether or not
\* globalThis.crypto is there
setupCryptoPolyfill_overwrite(e) ==
  LET crypto == IF e.require /\ e.webcrypto THEN "webcrypto" ELSE e.crypto
  IN IF crypto = "none" THEN [e EXCEPT !.crypto = crypto]
     ELSE IF e.self = "undefined"
     THEN [e EXCEPT !.crypto = crypto, !.self = "object", !.selfCrypto = crypto]
     ELSE IF e.selfCrypto = "none"
     THEN [e EXCEPT !.crypto = crypto, !.selfCrypto = crypto]
     ELSE [e EXCEPT !.crypto = crypto]

\* require('node:crypto') throws, or has no webcrypto, when ~e.webcrypto
setupCryptoPolyfill(e) ==
  LET crypto == IF e.crypto = "none" /\ e.require /\ e.webcrypto
                THEN "webcrypto" ELSE e.crypto
  IN IF crypto = "none" THEN [e EXCEPT !.crypto = crypto]
     ELSE IF e.self = "undefined"
     THEN [e EXCEPT !.crypto = crypto, !.self = "object", !.selfCrypto = crypto]
     ELSE IF e.selfCrypto = "none"
     THEN [e EXCEPT !.crypto = crypto, !.selfCrypto = crypto]
     ELSE [e EXCEPT !.crypto = crypto]

\* the environments the module may be loaded in
Environments ==
  { [NoEnv EXCEPT !.crypto = c, !.self = sf[1], !.selfCrypto = sf[2],
                  !.require = r, !.webcrypto = w,
                  !.initial = <<c, sf[1], sf[2]>>, !.first = <<c, sf[1], sf[2]>>] :
      c \in {"none", "native"},
      sf \in { <<"undefined", "none">>, <<"object", "none">>, <<"object", "own">>,
               <<"object", "native">> },
      r \in BOOLEAN, w \in BOOLEAN }

InitPolyfill ==
  /\ env \in Environments
  /\ accepted = {}
  /\ box = NoBox
  /\ calls = [p \in Procs |-> Idle]
  /\ now = 0
  /\ issued = NoIssue
  /\ token = <<>>
  /\ made = <<>>
  /\ target = NoTarget
  /\ timePad = 0
  /\ bodyEncoding = "utf8"
  /\ result = "none"
  /\ parsed = NullToken
  /\ op = "init"

\* the module is imported: setupCryptoPolyfill() runs once
Import ==
  /\ env.count = 0
  /\ env' = [setupCryptoPolyfill(env) EXCEPT
               !.count = 1, !.first = Globals(setupCryptoPolyfill(env))]
  /\ UNCHANGED <<now, issued, token, made, target, timePad, bodyEncoding, result,
                 parsed, op, calls, accepted, box>>

\* a caller runs setupCryptoPolyfill() again
CallSetup ==
  /\ env.count >= 1
  /\ env.count < MaxCalls
  /\ env' = [setupCryptoPolyfill(env) EXCEPT !.count = @ + 1]
  /\ UNCHANGED <<now, issued, token, made, target, timePad, bodyEncoding, result,
                 parsed, op, calls, accepted, box>>

NextPolyfill ==
  \/ Import
  \/ CallSetup

SpecPolyfill == InitPolyfill /\ [][NextPolyfill]_vars

---------------------------------------------------------------------------
(* Notions the claims are stated in *)

\* the number of delimiters in a string: a string of n fields has n - 1
BarCount(s) == Cardinality({ i \in 1..Len(s) : s[i] = Bar })
IsBarFree(s) == BarCount(s) = 0

\* a verifyAuthToken call is recorded in the state
Verified == result # "none"

\* the issued token verifies against the payload it was issued for
IssuedVerifies ==
  verifyAuthToken(issued.token, issuedTarget(issued), DefaultTimePad,
                  issued.bodyEncoding) = "true"

\* two optional bodies that carry the same bytes under an encoding: both
\* empty or absent, or both decoding to the same byte array
SameContent(b1, b2, enc) ==
  /\ Truthy(b1) = Truthy(b2)
  /\ Truthy(b1) => toArray(b1.s, enc) = toArray(b2.s, enc)

\* the instants of the token's and the target's timestamps (when dates)
TokenTime == Date(parseAuthToken(token).timestamp).t
TargetTime == Date(target.timestamp).t

---------------------------------------------------------------------------
(* C1: round trip *)

\* C1 as stated: the token getAuthToken returns for any key, any request
\* path, any optional body and either scheme verifies against the payload
\* it was issued for (its own timestamp, the same bodyEncoding).
C1_RoundTripAnyPath == op = "honest" => result = "true"

\* C1, amended: the same for every request path that does not contain the
\* delimiter '|'.
C1_RoundTrip ==
  (op = "honest" /\ IsBarFree(issued.requestPath)) => result = "true"

C1_Witness ==
  /\ op = "honest"
  /\ result = "true"
  /\ issued.scheme = "brc77"
  /\ issued.bodyEncoding = "hex"
  /\ Truthy(target.body)
  /\ timePad = 0

---------------------------------------------------------------------------
(* C2: the body is bound *)

\* C2 as stated: when the issued token verifies against a payload, it
\* verifies false against the same payload with any different body string.
C2_AnyOtherBody ==
  (/\ op = "body"
   /\ IssuedVerifies
   /\ issued.body.has
   /\ target.body.has) => result = "false"

\* C2, amended: when the issued token verifies against a payload, it
\* verifies false against the same payload with a body whose bytes under
\* the bodyEncoding differ (an absent body and '' both being no bytes).
C2_OtherBodyBytes ==
  (/\ op = "body"
   /\ IssuedVerifies
   /\ ~SameContent(target.body, issued.body, bodyEncoding)) => result = "false"

C2_Witness ==
  /\ op = "body"
  /\ IssuedVerifies
  /\ issued.scheme = "bsm"
  /\ bodyEncoding = "base64"
  /\ Truthy(issued.body)
  /\ Truthy(target.body)
  /\ ~SameContent(target.body, issued.body, bodyEncoding)
  /\ result = "false"

---------------------------------------------------------------------------
(* C3: the request path is bound *)

\* C3: verifyAuthToken returns false whenever the requestPath of the
\* parsed token is not exactly the target's, whatever the signature is and
\* whatever timestamp and body the target carries.
C3_PathBinding ==
  (Verified /\ parseAuthToken(token).requestPath # target.requestPath) =>
    /\ result = "false"
    /\ \A t \in Times, b \in Bodies :
         verifyAuthToken(token,
                         [requestPath |-> target.requestPath,
                          timestamp |-> toISOString(t), body |-> b],
                         timePad, bodyEncoding) = "false"

\* a valid token, refused for the case of one letter of the path only
C3_Witness ==
  /\ op = "path"
  /\ IssuedVerifies
  /\ parseAuthToken(token).requestPath = <<Ch("a")>>
  /\ target.requestPath = <<Ch("A")>>
  /\ result = "false"

---------------------------------------------------------------------------
(* C4: the signature is bound *)

\* C4: when the issued token verifies against a payload, the same token
\* with any different signature field verifies false against that payload:
\* verifyAuthToken returns the boolean false.
C4_AnyOtherSignature ==
  (op = "signature" /\ IssuedVerifies) => result = "false"

---------------------------------------------------------------------------
(* C5: forward bound of the timestamp window *)

C5_RefusedAhead ==
  /\ op = "time"
  /\ IssuedVerifies
  /\ TokenTime = TargetTime + timePad + 1
  /\ result = "false"

---------------------------------------------------------------------------
(* C6: no backward bound *)

---------------------------------------------------------------------------
(* C7: the two-sided window of the API reference *)

\* C7: verifyAuthToken returns false whenever the token's timestamp and
\* the target's differ by more than timePad minutes, in either direction.
C7_TwoSidedSkew ==
  (/\ Verified
   /\ Date(parseAuthToken(token).timestamp).valid
   /\ Date(target.timestamp).valid
   /\ \/ TokenTime > TargetTime + timePad
      \/ TargetTime > TokenTime + timePad) => result = "false"

---------------------------------------------------------------------------
(* C8: five fields *)

\* C8: parseAuthToken returns null for every string that does not split
\* on '|' into exactly five fields, and a token only for strings of
\* exactly five fields.
C8_FiveFields ==
  op = "parse" =>
    /\ BarCount(token) # 4 => parsed = NullToken
    /\ parsed.ok => BarCount(token) = 4

\* a token of more than five fields is refused
C8_Witness ==
  /\ op = "parse"
  /\ BarCount(token) > 4
  /\ split(token)[2] = <<W("brc77")>>
  /\ parsed = NullToken

---------------------------------------------------------------------------
(* C9: unknown scheme *)

\* a string of five fields whose second is neither 'bsm' nor 'brc77'
UnknownScheme(s) ==
  /\ BarCount(s) = 4
  /\ split(s)[2] \notin { <<W("bsm")>>, <<W("brc77")>> }

\* C9: for a token of five fields whose scheme is neither 'bsm' nor
\* 'brc77', parseAuthToken returns null and verifyAuthToken returns false,
\* also when the signature is a valid one over the canonical message.
C9_UnknownScheme ==
  UnknownScheme(token) =>
    /\ op = "parse" => parsed = NullToken
    /\ Verified => result = "false"

\* the issued brc77 token, valid but for its scheme field, is refused
C9_Witness ==
  /\ op = "scheme"
  /\ IssuedVerifies
  /\ issued.scheme = "brc77"
  /\ UnknownScheme(token)
  /\ made[5] = issuedFields(issued)[5]
  /\ result = "false"

---------------------------------------------------------------------------
(* C10: serialize and parse *)

C10_NoValidation ==
  /\ op = "parse"
  /\ parsed.ok
  /\ \/ parsed.pubkey = Garbage
     \/ parsed.signature = Garbage

---------------------------------------------------------------------------
(* C11: malformed tokens *)

\* a string that does not split into five fields, or whose second field is
\* no known scheme
Malformed(s) == BarCount(s) # 4 \/ UnknownScheme(s)

\* targets of every kind: any path, a timestamp that is a date or not, any body
AnyTargets ==
  { [requestPath |-> p, timestamp |-> ts, body |-> b] :
      p \in Paths, ts \in { toISOString(t) : t \in Times } \cup { Garbage, <<>> },
      b \in { NoBody, SomeBody(<<Ch("a")>>) } }

\* C11: for a token string with a field count other than five or with an
\* unknown scheme, parseAuthToken returns null and verifyAuthToken returns
\* false, without raising, for every target, timePad and bodyEncoding.
C11_MalformedNeverRaises ==
  Malformed(token) =>
    /\ op = "parse" => parsed = NullToken
    /\ Verified => result = "false"
    /\ op \in {"fields", "scheme"} =>
         \A tgt \in AnyTargets, pad \in Pads, enc \in Encodings :
           verifyAuthToken(token, tgt, pad, enc) = "false"

\* a token of three fields is refused
C11_Witness ==
  /\ op = "fields"
  /\ BarCount(token) = 2
  /\ Malformed(token)
  /\ result = "false"

\* the empty string is one (empty) field and is refused
C11_EmptyToken ==
  /\ op = "fields"
  /\ token = <<>>
  /\ result = "false"

---------------------------------------------------------------------------
(* C12: invalid public key *)

\* C12: for a token of five fields with a known scheme whose pubkey field
\* is no public key, verifyAuthToken returns false and does not raise,
\* whatever the signature field holds.
C12_InvalidPubkey ==
  (/\ Verified
   /\ parseAuthToken(token).ok
   /\ ~IsPublicKey(parseAuthToken(token).pubkey)) =>
    /\ result = "false"
    /\ \A sig \in SignatureValues(issued) :
         verifyAuthToken(Join([made EXCEPT ![5] = sig]), target, timePad,
                         bodyEncoding) = "false"

\* the issued bsm token, valid but for its pubkey field, is refused
C12_Witness ==
  /\ op = "pubkey"
  /\ IssuedVerifies
  /\ issued.scheme = "bsm"
  /\ made[1] = Garbage
  /\ made[5] = issuedFields(issued)[5]
  /\ result = "false"

---------------------------------------------------------------------------
(* C13: scheme isolation *)

OtherScheme(s) == IF s = "bsm" THEN "brc77" ELSE "bsm"

\* five fields that declare one scheme and carry a signature made by the
\* other scheme's algorithm
CrossSigned(f) ==
  /\ Len(f) = 5
  /\ \E s \in Schemes :
       /\ f[2] = <<W(s)>>
       /\ IsSignatureOf(toArray(f[5], "base64"), OtherScheme(s))

\* C13: a token that declares one scheme and carries the signature the
\* other scheme's algorithm makes over the same canonical message never
\* verifies true: verifyAuthToken returns false or raises, for a token that
\* declares bsm and for one that declares brc77.
C13_SchemeIsolation ==
  (Verified /\ CrossSigned(made)) => result \in {"false", "throw"}

\* a brc77 token carrying the bsm signature of the same key over the same
\* message
C13_Witness ==
  /\ op = "signature"
  /\ IssuedVerifies
  /\ issued.scheme = "brc77"
  /\ made[5] = signatureOf("bsm", issued.key, issuedMessage(issued))
  /\ CrossSigned(made)
  /\ result # "true"

\* a token issued under bsm whose scheme field was changed to brc77
C13_Redeclared ==
  /\ op = "scheme"
  /\ IssuedVerifies
  /\ issued.scheme = "bsm"
  /\ CrossSigned(made)
  /\ result # "true"

---------------------------------------------------------------------------
(* C14: a signature of the wrong encoding raises *)

---------------------------------------------------------------------------
(* C15: the presence of a body is bound *)

\* C15: a token issued with a non-empty body verifies false against a
\* target without a body, and a token issued without a body verifies false
\* against a target with a non-empty body, the path, the timestamp and the
\* scheme being the same, under bsm and under brc77.
C15_BodyPresence ==
  (/\ op = "body"
   /\ \/ Truthy(issued.body) /\ ~Truthy(target.body)
      \/ ~Truthy(issued.body) /\ Truthy(target.body)) => result = "false"

\* a brc77 token issued without a body, against a target that carries one
C15_Witness ==
  /\ op = "body"
  /\ IssuedVerifies
  /\ issued.scheme = "brc77"
  /\ ~issued.body.has
  /\ Truthy(target.body)
  /\ result = "false"

\* a bsm token issued with a body, against a target that carries none
C15_BodyDropped ==
  /\ op = "body"
  /\ IssuedVerifies
  /\ issued.scheme = "bsm"
  /\ Truthy(issued.body)
  /\ ~target.body.has
  /\ result = "false"

---------------------------------------------------------------------------
(* C16: the bodyEncoding is bound *)

\* the issued body decodes to the same bytes under the issuer's
\* bodyEncoding and under the verifier's (no bytes when it is absent or '')
SameBytesDecoded ==
  Truthy(issued.body) =>
    toArray(issued.body.s, issued.bodyEncoding) = toArray(issued.body.s, bodyEncoding)

\* C16: a token issued with body B under bodyEncoding E verifies true
\* against the target body B with E, and false with any other bodyEncoding
\* E' of utf8, hex, base64, unless B decodes to the same bytes under E and
\* E', in which case it verifies true.
C16_EncodingSensitivity ==
  /\ (op = "honest" /\ IsBarFree(issued.requestPath)) =>
       /\ bodyEncoding = issued.bodyEncoding
       /\ result = "true"
  /\ (op = "encoding" /\ IssuedVerifies) =>
       /\ bodyEncoding # issued.bodyEncoding
       /\ ~SameBytesDecoded => result = "false"
       /\ SameBytesDecoded => result = "true"

\* a body issued as hex and verified as utf8
C16_Witness ==
  /\ op = "encoding"
  /\ IssuedVerifies
  /\ Truthy(issued.body)
  /\ issued.bodyEncoding = "hex"
  /\ bodyEncoding = "utf8"
  /\ ~SameBytesDecoded
  /\ result = "false"

\* 'DQ' is the byte 13 as hex and as base64: the other encoding verifies
C16_Coincidence ==
  /\ op = "encoding"
  /\ IssuedVerifies
  /\ issued.body = SomeBody(<<Ch("D"), Ch("Q")>>)
  /\ issued.bodyEncoding = "hex"
  /\ bodyEncoding = "base64"
  /\ result = "true"

---------------------------------------------------------------------------
(* C17: the canonical message *)

\* requestPath + '|' + timestamp + '|' + bodyHashHex, written out: the hash
\* is the empty string when there is no body
CanonicalMessage(requestPath, timestamp, body, enc) ==
  requestPath \o <<Ch("|")>> \o timestamp \o <<Ch("|")>>
    \o (IF body.has /\ body.s # <<>> THEN <<<<"sha", toArray(body.s, enc)>>>> ELSE <<>>)

\* the token put together by hand: pubkey|scheme|ts|path|signature of the
\* scheme over the canonical message
HandFields(i) ==
  << toPublicKeyString(i.key), <<W(i.scheme)>>, i.timestamp, i.requestPath,
     IF i.scheme = "bsm"
     THEN BSM_sign(toArray(CanonicalMessage(i.requestPath, i.timestamp, i.body,
                                            i.bodyEncoding), "utf8"), i.key)
     ELSE toBase64(SignedMessage_sign(
            toArray(CanonicalMessage(i.requestPath, i.timestamp, i.body,
                                     i.bodyEncoding), "utf8"), i.key)) >>

\* the AuthToken of five fields
AsToken(f) ==
  [ok |-> TRUE, pubkey |-> f[1], scheme |-> f[2], timestamp |-> f[3],
   requestPath |-> f[4], signature |-> f[5]]

\* C17: for every requestPath, timestamp, body and bodyEncoding the issuer
\* signs, and the verifier rebuilds from the token's path and timestamp and
\* the target's body, exactly requestPath + '|' + timestamp + '|' +
\* bodyHashHex (the empty string without a body): the issued token is the
\* one assembled by hand around a signature over that message, the scheme's
\* verifier accepts the hand-made token, and through verifyAuthToken the
\* hand-made token verifies true.
C17_CanonicalMessage ==
  issued.has =>
    /\ issued.token = Join(HandFields(issued))
    /\ (IF issued.scheme = "bsm"
        THEN verifyAuthTokenBSM(AsToken(HandFields(issued)), issuedTarget(issued),
                                issued.bodyEncoding)
        ELSE verifyAuthTokenBRC77(AsToken(HandFields(issued)), issuedTarget(issued),
                                  issued.bodyEncoding)) = "true"
    /\ (op = "honest" /\ IsBarFree(issued.requestPath)) =>
         /\ token = Join(HandFields(issued))
         /\ result = "true"

\* the bsm token of a body, equal to the hand-made one, verifies
C17_Witness ==
  /\ op = "honest"
  /\ issued.scheme = "bsm"
  /\ Truthy(issued.body)
  /\ token = Join(HandFields(issued))
  /\ result = "true"

---------------------------------------------------------------------------
(* C18: the signature covers the token's timestamp, not the target's *)

C18_EarlierTarget ==
  /\ op = "time"
  /\ IssuedVerifies
  /\ TargetTime < TokenTime
  /\ TokenTime <= TargetTime + timePad
  /\ result = "true"

---------------------------------------------------------------------------
(* C19: the default scheme *)

\* C19: getAuthToken called without a scheme returns a token whose scheme
\* field is 'brc77' and whose signature verifies under brc77; the token
\* names 'bsm' only when 'bsm' was asked for.
C19_DefaultScheme ==
  issued.has =>
    /\ issued.asked = Undefined =>
         /\ split(issued.token)[2] = <<W("brc77")>>
         /\ issued.token =
              getAuthTokenBRC77(TokenTimeOf(issued), issued.key, issued.requestPath,
                                issued.body, issued.bodyEncoding)
         /\ IsBarFree(issued.requestPath) =>
              verifyAuthTokenBRC77(parseAuthToken(issued.token),
                                   issuedTarget(issued), issued.bodyEncoding) = "true"
         /\ (op = "honest" /\ IsBarFree(issued.requestPath)) => result = "true"
    /\ split(issued.token)[2] = <<W("bsm")>> <=> issued.asked = "bsm"

\* a token asked for without a scheme verifies as a brc77 token
C19_Witness ==
  /\ op = "honest"
  /\ issued.asked = Undefined
  /\ parseAuthToken(token).scheme = <<W("brc77")>>
  /\ result = "true"

---------------------------------------------------------------------------
(* C20: concurrent calls *)

\* the result of a finished call is the one the call gives when run alone:
\* a function of its arguments, and for getAuthToken of the clock it read
AsAlone(c) ==
  CASE c.kind = "verify" ->
         c.result = verifyAuthToken(c.token, c.target, c.timePad, CEncoding)
    [] c.kind = "parse" -> c.parsedToken = parseAuthToken(c.token)
    [] c.kind = "issue" ->
         c.token = getAuthToken(c.at, CKey, CPath, c.scheme, NoBody, CEncoding)
    [] OTHER -> TRUE

---------------------------------------------------------------------------
(* C21: no replay tracking *)

---------------------------------------------------------------------------
(* C22: encryption round trip *)

\* C22: for every server key k and every plaintext p, the empty string
\* included, decryptPayload(k, encryptPayload(publicKeyHex(k), p)) returns
\* exactly p.
C22_EncryptionRoundTrip ==
  box.op = "decrypt" =>
    /\ box.keyArg = Str(toPublicKeyString(box.recipient))
    /\ box.payload = box.sent
    /\ box.out.kind = "ok"
    /\ box.out.value = box.plaintext

\* the empty plaintext comes back as the empty string
C22_Witness ==
  /\ box.op = "decrypt"
  /\ box.plaintext = <<>>
  /\ box.out.kind = "ok"
  /\ box.out.value = <<>>

\* a plaintext of several characters comes back
C22_LongerText ==
  /\ box.op = "decrypt"
  /\ Len(box.plaintext) = 3
  /\ box.out.value = box.plaintext

---------------------------------------------------------------------------
(* C23: encryptPayload validates the server key *)

\* C23: encryptPayload raises 'Invalid server public key' for an empty or
\* non-string server public key and 'Invalid server public key format' for
\* a non-empty string that is no public key; in both cases it returns no
\* EncryptedPayload.
C23_ServerKeyValidation ==
  box.op = "encrypt" =>
    /\ (box.keyArg.type # "string" \/ box.keyArg.s = <<>>) =>
         box.out = Throws("Invalid server public key")
    /\ (box.keyArg.type = "string" /\ box.keyArg.s # <<>>
          /\ ~IsPublicKey(box.keyArg.s)) =>
         box.out = Throws("Invalid server public key format")
    /\ box.out.kind = "throw" => box.sent = NoPayload

\* a string that is no key
C23_Witness ==
  /\ box.op = "encrypt"
  /\ box.keyArg = Str(Garbage)
  /\ box.out = Throws("Invalid server public key format")

\* a key that is no string
C23_NotAString ==
  /\ box.op = "encrypt"
  /\ box.keyArg = JsNumber
  /\ box.out = Throws("Invalid server public key")

---------------------------------------------------------------------------
(* C24: decryptPayload authenticates *)

\* the payload carries the bytes that were sent, under the key they were
\* encrypted for
Authentic ==
  /\ box.payload.ciphertext.type = "string"
  /\ hexStringToArray(box.payload.ciphertext.s)
       = hexStringToArray(box.sent.ciphertext.s)
  /\ box.payload.ephemeralPub = box.sent.ephemeralPub
  /\ box.recipient = box.serverKey

\* C24: decryptPayload returns no plaintext for a payload it cannot
\* authenticate: without ephemeralPub it raises 'Invalid encrypted payload:
\* missing ephemeralPub', also when the ciphertext is missing too; without
\* ciphertext it raises 'Invalid encrypted payload: missing ciphertext';
\* with another private key than the recipient's, with changed ciphertext
\* bytes or with another ephemeralPub it raises and returns no string.
C24_DecryptAuthenticates ==
  box.op \in {"decrypt", "wrongkey", "altered"} =>
    /\ (~JsTruthy(box.payload.ephemeralPub)
          \/ box.payload.ephemeralPub.type # "string") =>
         box.out = Throws("Invalid encrypted payload: missing ephemeralPub")
    /\ (/\ JsTruthy(box.payload.ephemeralPub)
        /\ box.payload.ephemeralPub.type = "string"
        /\ (~JsTruthy(box.payload.ciphertext)
              \/ box.payload.ciphertext.type # "string")) =>
         box.out = Throws("Invalid encrypted payload: missing ciphertext")
    /\ ~Authentic => box.out.kind = "throw"
    /\ box.out.kind = "ok" => box.out.value = box.plaintext

\* both fields missing: the ephemeralPub is reported
C24_Witness ==
  /\ box.op = "altered"
  /\ box.payload = NoPayload
  /\ box.out = Throws("Invalid encrypted payload: missing ephemeralPub")

\* another private key, a changed byte, another sender's ephemeralPub
C24_WrongKey ==
  /\ box.op = "wrongkey"
  /\ box.out = Throws("Decryption failed!")

C24_ChangedByte ==
  /\ box.op = "altered"
  /\ box.payload.ciphertext = Tampered(box.sent.ciphertext)
  /\ box.out.kind = "throw"

C24_OtherEphemeral ==
  /\ box.op = "altered"
  /\ box.payload.ephemeralPub.type = "string"
  /\ IsPublicKey(box.payload.ephemeralPub.s)
  /\ box.payload.ephemeralPub # box.sent.ephemeralPub
  /\ box.out.kind = "throw"

\* the same ciphertext bytes written in uppercase hex still decrypt
C24_SameBytes ==
  /\ box.op = "altered"
  /\ box.payload.ciphertext # box.sent.ciphertext
  /\ Authentic
  /\ box.out.kind = "ok"

---------------------------------------------------------------------------
(* C25: the order of the checks *)

\* the four checks that come before the signature is read
ParsePasses == parseAuthToken(token).ok
WindowPasses ==
  ~DateGT(Date(parseAuthToken(token).timestamp),
          setMinutes(Date(target.timestamp), timePad))
PathPasses == parseAuthToken(token).requestPath = target.requestPath
PubkeyPasses == IsPublicKey(parseAuthToken(token).pubkey)

\* C25: verifyAuthToken raises only after the token has parsed and the
\* timestamp window, the path comparison and the public-key check have all
\* passed; a token that fails one of the four yields false, also when its
\* signature field is no signature of the declared scheme.
C25_CheckOrdering ==
  Verified =>
    /\ result = "throw" =>
         ParsePasses /\ WindowPasses /\ PathPasses /\ PubkeyPasses
    /\ ~(ParsePasses /\ WindowPasses /\ PathPasses /\ PubkeyPasses) =>
         result = "false"

\* a signature field that is no signature, and a path that is not the
\* target's: false
C25_Witness ==
  /\ op = "broken"
  /\ ParsePasses
  /\ parseAuthToken(token).signature = Garbage
  /\ ~PathPasses
  /\ result = "false"

\* ... and a timestamp beyond the window: false
C25_LateToken ==
  /\ op = "broken"
  /\ ParsePasses
  /\ parseAuthToken(token).signature = Garbage
  /\ ~WindowPasses
  /\ result = "false"

\* ... and nothing else wrong: the library raises
C25_Raises ==
  /\ op = "broken"
  /\ parseAuthToken(token).signature = Garbage
  /\ result = "throw"

---------------------------------------------------------------------------
(* C26: delimiter collision *)

\* C26: getAuthToken neither refuses nor escapes a requestPath that holds
\* '|': the token is the plain join of its fields, it splits into more than
\* five fields, parseAuthToken returns null on it and verifyAuthToken
\* returns false on it against the very payload it was issued for.
C26_DelimiterCollision ==
  (issued.has /\ ~IsBarFree(issued.requestPath)) =>
    /\ issued.token = Join(issuedFields(issued))
    /\ Len(split(issued.token)) > 5
    /\ parseAuthToken(issued.token) = NullToken
    /\ (op = "parse" /\ token = issued.token) => parsed = NullToken
    /\ op = "honest" => result = "false"

\* the token of the path 'a|a' is refused for the payload it was issued for
C26_Witness ==
  /\ op = "honest"
  /\ issued.requestPath = <<Ch("a"), Bar, Ch("a")>>
  /\ token = issued.token
  /\ target = issuedTarget(issued)
  /\ result = "false"

---------------------------------------------------------------------------
(* C27: the public key is bound *)

\* C27: replacing the pubkey field of a token that verifies by any other
\* valid public key makes verifyAuthToken return false, under bsm and
\* under brc77: a token is accepted only with the public key of the key
\* that signed it.
C27_PubkeyBinding ==
  (op = "pubkey" /\ IssuedVerifies /\ IsPublicKey(made[1])) => result = "false"

---------------------------------------------------------------------------
(* C28: an empty body is no body *)

\* C28: the issuer and the verifier treat the body '' as an omitted body:
\* the body hash is the empty string and not the SHA-256 of no bytes, so a
\* token issued with body '' verifies true against a target without body,
\* and a token issued without body verifies true against a target with
\* body ''.
C28_EmptyBodyIsAbsent ==
  /\ \A e \in Encodings :
       /\ bodyHashOf(SomeBody(<<>>), e) = <<>>
       /\ bodyHashOf(NoBody, e) = <<>>
       /\ sha256Hex(toArray(<<>>, e)) # <<>>
  /\ (/\ op = "body"
      /\ IsBarFree(issued.requestPath)
      /\ ~Truthy(issued.body)
      /\ ~Truthy(target.body)) => result = "true"

\* issued with '', verified without a body
C28_Witness ==
  /\ op = "body"
  /\ issued.body = SomeBody(<<>>)
  /\ target.body = NoBody
  /\ result = "true"

\* issued without a body, verified with ''
C28_Converse ==
  /\ op = "body"
  /\ issued.body = NoBody
  /\ target.body = SomeBody(<<>>)
  /\ result = "true"

---------------------------------------------------------------------------
(* C29: timestamps that are no dates *)

\* C29: when the token's timestamp field or the target's timestamp is no
\* date, the comparison tokenTime > targetTime + timePad is false:
\* verifyPreRequisites does not fail on the timestamp, and the path, the
\* public key and the signature alone decide the result.
C29_UnparseableTimestamps ==
  (/\ Verified
   /\ ParsePasses
   /\ \/ ~Date(parseAuthToken(token).timestamp).valid
      \/ ~Date(target.timestamp).valid) =>
    /\ WindowPasses
    /\ verifyPreRequisites(parseAuthToken(token), target, timePad)
         = (PathPasses /\ PubkeyPasses)
    /\ result =
         IF ~(PathPasses /\ PubkeyPasses) THEN "false"
         ELSE IF parseAuthToken(token).scheme = <<W("bsm")>>
         THEN verifyAuthTokenBSM(parseAuthToken(token), target, bodyEncoding)
         ELSE verifyAuthTokenBRC77(parseAuthToken(token), target, bodyEncoding)

\* a token signed over a timestamp that is no date is accepted for a dated
\* target, with no timePad
C29_Witness ==
  /\ op = "undated"
  /\ ~Date(parseAuthToken(token).timestamp).valid
  /\ Date(target.timestamp).valid
  /\ timePad = 0
  /\ result = "true"

\* the issued token is accepted for a target whose timestamp is no date
C29_UndatedTarget ==
  /\ op = "undated"
  /\ token = issued.token
  /\ ~Date(target.timestamp).valid
  /\ result = "true"

---------------------------------------------------------------------------
(* C30: the crypto polyfill *)

\* C30: setupCryptoPolyfill never replaces a globalThis.crypto or a
\* self.crypto that is already there, it sets self.crypto only when
\* globalThis.crypto exists, and after any number of calls, the one at
\* import included, the globals are as they were after the first call.
C30_PolyfillIdempotent ==
  /\ env.count >= 1 => Globals(env) = env.first
  /\ env.initial[1] # "none" => env.crypto = env.initial[1]
  /\ env.initial[3] # "none" => env.selfCrypto = env.initial[3]
  /\ env.initial[2] # "undefined" => env.self = env.initial[2]
  /\ env.selfCrypto # env.initial[3] =>
       /\ env.crypto # "none"
       /\ env.selfCrypto = env.crypto

\* Node without crypto and without self: both were set by the import and
\* the later calls changed nothing
C30_Witness ==
  /\ env.count = MaxCalls
  /\ env.initial = <<"none", "undefined", "none">>
  /\ Globals(env) = <<"webcrypto", "object", "webcrypto">>
  /\ env.first = Globals(env)

\* a crypto that was there, and a self.crypto of its own, were left alone
C30_LeftAlone ==
  /\ env.count >= 2
  /\ env.require
  /\ env.webcrypto
  /\ Globals(env) = <<"native", "object", "own">>
====
